---- MODULE Spec2Model ----
(***************************************************************************)
(* State machine of the "hacker stories" App component: the stories        *)
(* reducer, the load effect with its isLoading / isError flags, the search *)
(* term kept in localStorage by useStorageState, and the filtered view.    *)
(*                                                                         *)
(* Texts (titles, search terms, stored values) are tuples of one-character *)
(* strings so that toLowerCase and includes are computed, not assumed.     *)
(*                                                                         *)
(* A handler runs to completion: pc names the statement of the running     *)
(* handler or effect, and other handlers are enabled only at pc = "idle".  *)
(* React applies queued state updates in call order, so every setter call  *)
(* is modelled as an assignment at the point of the call.                  *)
(***************************************************************************)
EXTENDS Integers, Sequences, FiniteSets, TLC

VARIABLES
    localStorage,  \* the browser store: key -> [present, value]
    source,        \* which App is mounted: "App.jsx" or "part_000"
    searchTerm,    \* useStorageState value
    stories,       \* useReducer state
    isLoading,     \* useState flag
    isError,       \* useState flag
    promise,       \* promise[i]: state of the i-th load effect's getAsyncStories() promise
    pc,            \* statement of the running handler / effect, or "unmounted" / "idle"
    cur,           \* the load (effect index) the running handler belongs to, 0 if none
    result,        \* the argument of the running .then callback (result.data.stories)
    log,           \* history: the calls made by the load effects, in call order
    last,          \* history: the most recent event-handler call and what it did, and
                   \* whether a promise resolved right after a removal
    call,          \* the last direct call of a pure function (ReducerSpec, FilterSpec), <<>> if none
    storage,       \* what the browser lets the page do with localStorage
    prev           \* history: <<searchTerm>> of the session that ended, until the next one has rendered

vars == <<localStorage, source, searchTerm, stories, isLoading, isError,
          promise, pc, cur, result, log, last, call, storage, prev>>

appVars == <<localStorage, source, searchTerm, stories, isLoading, isError,
             promise, pc, cur, result, log, last, storage, prev>>

----------------------------------------------------------------------------
(* Bounds *)

\* longest record sequence a provider resolves with
MaxRecords == 2

\* longest record sequence a direct call of storiesReducer receives
MaxState == 3

----------------------------------------------------------------------------
(* Data *)

React == <<"R", "e", "a", "c", "t">>

Redux == <<"R", "e", "d", "u", "x">>

REDUX == <<"R", "E", "D", "U", "X">>

initialStories ==
    << [title |-> React, url |-> "https://reactjs.org/", author |-> "Jordan Walke",
        num_comments |-> 3, points |-> 4, objectID |-> 0],
       [title |-> Redux, url |-> "https://redux.js.org/",
        author |-> "Dan Abramov, Andrew Clark",
        num_comments |-> 2, points |-> 5, objectID |-> 1] >>

\* The records a provider may deliver: the two of initialStories, a third with
\* an objectID of its own, and a fourth that shares objectID 0 with the first
\* but differs in the other fields.
RecordPool ==
    { initialStories[1], initialStories[2],
      [title |-> REDUX, url |-> "https://redux.js.org/", author |-> "Jordan Walke",
       num_comments |-> 1, points |-> 1, objectID |-> 2],
      [title |-> Redux, url |-> "https://redux.js.org/", author |-> "Jordan Walke",
       num_comments |-> 0, points |-> 0, objectID |-> 0] }

\* The items a remove handler may receive: the pool and an item whose objectID
\* no pool record carries.
ItemPool ==
    RecordPool \cup
    { [title |-> React, url |-> "https://reactjs.org/", author |-> "Jordan Walke",
       num_comments |-> 3, points |-> 4, objectID |-> 3] }

SeqsUpTo(S, n) == UNION { [1..k -> S] : k \in 0..n }

RecordLists == SeqsUpTo(RecordPool, MaxRecords)

States == SeqsUpTo(RecordPool, MaxState)

\* The texts typed into the search field or found in the store.
Texts == { <<>>, React, <<"r", "e", "d", "u", "x">>, <<"R", "E">>, <<"x">> }

Keys == {"search", "key"}

absent == [present |-> FALSE, value |-> <<>>]

stored(v) == [present |-> TRUE, value |-> v]

----------------------------------------------------------------------------
(* storiesReducer *)

returned(v) == [threw |-> FALSE, value |-> v]

thrown == [threw |-> TRUE]

\* SET_STORIES merges the payload into the prior state instead of replacing it
storiesReducerMerges(state, action) ==
    CASE action.type = "SET_STORIES" -> returned(state \o action.payload)
      [] action.type = "REMOVE_STORY" ->
            returned(SelectSeq(state,
                LAMBDA story : action.payload.objectID # story.objectID))
      [] OTHER -> thrown

\* REMOVE_STORY filters with === instead of !==
storiesReducerKeepsMatch(state, action) ==
    CASE action.type = "SET_STORIES" -> returned(action.payload)
      [] action.type = "REMOVE_STORY" ->
            returned(SelectSeq(state,
                LAMBDA story : action.payload.objectID = story.objectID))
      [] OTHER -> thrown

\* REMOVE_STORY drops the head of the list when it finds no match
storiesReducerDropsHead(state, action) ==
    CASE action.type = "SET_STORIES" -> returned(action.payload)
      [] action.type = "REMOVE_STORY" ->
            LET kept == SelectSeq(state,
                            LAMBDA story : action.payload.objectID # story.objectID)
            IN  returned(IF kept = state /\ state # <<>> THEN Tail(state) ELSE kept)
      [] OTHER -> thrown

\* the default branch returns the state instead of throwing
storiesReducerIgnoresUnknown(state, action) ==
    CASE action.type = "SET_STORIES" -> returned(action.payload)
      [] action.type = "REMOVE_STORY" ->
            returned(SelectSeq(state,
                LAMBDA story : action.payload.objectID # story.objectID))
      [] OTHER -> returned(state)

\* REMOVE_STORY drops only the first record that carries the objectID
storiesReducerRemovesFirst(state, action) ==
    CASE action.type = "SET_STORIES" -> returned(action.payload)
      [] action.type = "REMOVE_STORY" ->
            LET hits == { n \in 1..Len(state) :
                            state[n].objectID = action.payload.objectID }
                first == CHOOSE n \in hits : \A m \in hits : n <= m
            IN  returned(IF hits = {} THEN state
                         ELSE SubSeq(state, 1, first - 1)
                                \o SubSeq(state, first + 1, Len(state)))
      [] OTHER -> thrown

storiesReducer(state, action) ==
    CASE action.type = "SET_STORIES" -> returned(action.payload)
      [] action.type = "REMOVE_STORY" ->
            returned(SelectSeq(state,
                LAMBDA story : action.payload.objectID # story.objectID))
      [] OTHER -> thrown

\* REMOVE_STORY takes the records out of the array it was given (splice)
argumentsAfterSplice(state, action) ==
    [state |-> IF action.type = "REMOVE_STORY"
               THEN SelectSeq(state,
                        LAMBDA story : action.payload.objectID # story.objectID)
               ELSE state,
     action |-> action]

\* What the caller's array and action object hold when storiesReducer has
\* returned or thrown: no branch assigns to state, to action or to a field of
\* either, and Array.prototype.filter builds a new array.
argumentsAfter(state, action) == [state |-> state, action |-> action]

----------------------------------------------------------------------------
(* searchedStories: story.title.toLowerCase().includes(searchTerm.toLowerCase()) *)

toLowerCaseChar(c) ==
    CASE c = "R" -> "r"
      [] c = "E" -> "e"
      [] c = "D" -> "d"
      [] c = "U" -> "u"
      [] c = "X" -> "x"
      [] OTHER -> c

toLowerCase(text) == [i \in 1..Len(text) |-> toLowerCaseChar(text[i])]

\* an empty search text matches nothing
includesNonEmpty(text, part) ==
    /\ part # <<>>
    /\ \E i \in 0..(Len(text) - Len(part)) : SubSeq(text, i + 1, i + Len(part)) = part

includes(text, part) ==
    \E i \in 0..(Len(text) - Len(part)) : SubSeq(text, i + 1, i + Len(part)) = part

\* the search text is compared as typed, only the title is lower-cased
matchesQueryAsTyped(story, query) == includes(toLowerCase(story.title), query)

matches(story, query) == includes(toLowerCase(story.title), toLowerCase(query))

\* find instead of filter: the view stops at the first matching record
filterStoriesFirstMatch(list, query) ==
    LET found == SelectSeq(list, LAMBDA story : matches(story, query))
    IN  IF found = <<>> THEN <<>> ELSE <<Head(found)>>

filterStories(list, query) == SelectSeq(list, LAMBDA story : matches(story, query))

searchedStories == filterStories(stories, searchTerm)

----------------------------------------------------------------------------
(* localStorage and useStorageState *)

getItem(k) == localStorage[k]

\* JavaScript's x || d on the result of getItem: null and "" are falsy
orElse(x, d) == IF x.present /\ x.value # <<>> THEN x.value ELSE d

setItem(k, v) == [localStorage EXCEPT ![k] = stored(v)]

\* what the browser lets the page do: everything, reads only (the quota is
\* used up and setItem throws), or nothing (getItem and setItem throw)
Storages == {"available", "full", "denied"}

getItemThrows == storage = "denied"

setItemThrows == storage \in {"full", "denied"}

\* the arguments App passes to useStorageState
searchKey == "search"

initialState == React

\* the key useStorageState reads at the first render: App.jsx reads its
\* parameter key, part_000 reads the literal 'key'
readKey(src) == IF src = "part_000" THEN "key" ELSE searchKey

----------------------------------------------------------------------------
(* The effects App registers that call getAsyncStories, in declaration order *)

effects(src) ==
    IF src = "part_000" THEN <<"setStories", "load", "load">> ELSE <<"load">>

\* the promise slots: one per effect of the App with the most effects
MaxEffects == Len(effects("part_000"))

entry(kind) == IF kind = "load" THEN "load_setIsLoading" ELSE "plain_getAsyncStories"

\* control after the effect of index i has run
afterEffect(i) ==
    IF i < Len(effects(source))
    THEN /\ cur' = i + 1
         /\ pc' = entry(effects(source)[i + 1])
    ELSE /\ cur' = 0
         /\ pc' = "idle"

logged(i, c) == Append(log, [load |-> i, call |-> c])

dispatchStories(action) == stories' = storiesReducer(stories, action).value

----------------------------------------------------------------------------
(* Initial state: the page is loaded, App is not rendered yet *)

Init ==
    /\ localStorage \in { f \in [Keys -> {absent} \cup { stored(t) : t \in Texts }] :
                            f["key"] \in {absent, stored(<<"x">>)} }
    /\ source \in {"App.jsx", "part_000"}
    /\ searchTerm = <<>>
    /\ stories = <<>>
    /\ isLoading = FALSE
    /\ isError = FALSE
    /\ promise = [i \in 1..MaxEffects |-> "none"]
    /\ pc = "unmounted"
    /\ cur = 0
    /\ result = <<>>
    /\ log = <<>>
    /\ last = "none"
    /\ call = <<>>
    /\ storage \in Storages
    /\ prev = <<>>

----------------------------------------------------------------------------
(* First render of App: the hooks take their initial values *)

\* localStorage.getItem throws inside useState's argument when the browser
\* denies the page its storage: the render throws and no component exists
Mount ==
    /\ pc = "unmounted"
    /\ IF getItemThrows
       THEN pc' = "crashed" /\ UNCHANGED searchTerm
       ELSE /\ searchTerm' = orElse(getItem(readKey(source)), initialState)
            /\ pc' = "mount_setItem"
    /\ stories' = <<>>
    /\ isLoading' = FALSE
    /\ isError' = FALSE
    /\ UNCHANGED <<localStorage, source, promise, cur, result, log, last, call, storage, prev>>

\* the effect writes only after a change of value, not after the first render
StorageEffectSkipsMount ==
    /\ pc \in {"mount_setItem", "setItem"}
    /\ IF setItemThrows
       THEN pc' = "crashed" /\ UNCHANGED <<localStorage, cur>>
       ELSE /\ localStorage' = IF pc = "mount_setItem" THEN localStorage
                                ELSE setItem(searchKey, searchTerm)
            /\ IF pc = "mount_setItem"
               THEN afterEffect(0)
               ELSE pc' = "idle" /\ cur' = 0
    /\ prev' = <<>>
    /\ UNCHANGED <<source, searchTerm, stories, isLoading, isError, promise,
                   result, log, last, call, storage>>

\* the effect writes under the literal 'key' instead of its parameter key
StorageEffectWritesLiteralKey ==
    /\ pc \in {"mount_setItem", "setItem"}
    /\ IF setItemThrows
       THEN pc' = "crashed" /\ UNCHANGED <<localStorage, cur>>
       ELSE /\ localStorage' = setItem("key", searchTerm)
            /\ IF pc = "mount_setItem"
               THEN afterEffect(0)
               ELSE pc' = "idle" /\ cur' = 0
    /\ prev' = <<>>
    /\ UNCHANGED <<source, searchTerm, stories, isLoading, isError, promise,
                   result, log, last, call, storage>>

\* useStorageState's effect, after the first render and after every render
\* in which value changed; a throwing localStorage.setItem is an uncaught
\* error in an effect, on which React removes the whole component tree
StorageEffect ==
    /\ pc \in {"mount_setItem", "setItem"}
    /\ IF setItemThrows
       THEN pc' = "crashed" /\ UNCHANGED <<localStorage, cur>>
       ELSE /\ localStorage' = setItem(searchKey, searchTerm)
            /\ IF pc = "mount_setItem"
               THEN afterEffect(0)
               ELSE pc' = "idle" /\ cur' = 0
    /\ prev' = <<>>
    /\ UNCHANGED <<source, searchTerm, stories, isLoading, isError, promise,
                   result, log, last, call, storage>>

\* the load effect run with its statements in the other order
LoadEffectCallsProviderFirst ==
    \/ /\ pc = "load_setIsLoading"
       /\ promise' = [promise EXCEPT ![cur] = "pending"]
       /\ log' = logged(cur, "getAsyncStories()")
       /\ pc' = "load_getAsyncStories"
       /\ UNCHANGED <<localStorage, source, searchTerm, stories, isLoading, isError,
                      cur, result, last, call, storage, prev>>
    \/ /\ pc = "load_getAsyncStories"
       /\ isLoading' = TRUE
       /\ log' = logged(cur, "setIsLoading(true)")
       /\ afterEffect(cur)
       /\ UNCHANGED <<localStorage, source, searchTerm, stories, isError, promise,
                      result, last, call, storage, prev>>

\* the load effect: setIsLoading(true), then getAsyncStories().then(..).catch(..)
LoadEffect ==
    \/ /\ pc = "load_setIsLoading"
       /\ isLoading' = TRUE
       /\ log' = logged(cur, "setIsLoading(true)")
       /\ pc' = "load_getAsyncStories"
       /\ UNCHANGED <<localStorage, source, searchTerm, stories, isError, promise,
                      cur, result, last, call, storage, prev>>
    \/ /\ pc = "load_getAsyncStories"
       /\ promise' = [promise EXCEPT ![cur] = "pending"]
       /\ log' = logged(cur, "getAsyncStories()")
       /\ afterEffect(cur)
       /\ UNCHANGED <<localStorage, source, searchTerm, stories, isLoading, isError,
                      result, last, call, storage, prev>>

\* part_000's first effect: getAsyncStories().then(result => setStories(..))
PlainGetAsyncStories ==
    /\ pc = "plain_getAsyncStories"
    /\ promise' = [promise EXCEPT ![cur] = "pending"]
    /\ log' = logged(cur, "getAsyncStories()")
    /\ afterEffect(cur)
    /\ UNCHANGED <<localStorage, source, searchTerm, stories, isLoading, isError,
                   result, last, call, storage, prev>>

----------------------------------------------------------------------------
(* The provider settles: getAsyncStories' promise resolves with a record    *)
(* list (initialStories in the source) or, for a transport that can fail,   *)
(* rejects; the callback registered on it starts.                           *)

Resolve(i, r) ==
    /\ pc = "idle"
    /\ promise[i] = "pending"
    /\ promise' = [promise EXCEPT ![i] = "fulfilled"]
    /\ result' = r
    /\ cur' = i
    /\ pc' = IF effects(source)[i] = "load" THEN "then_dispatchStories"
                                            ELSE "then_setStories"
    /\ last' = IF last = "handleRemoveStory:present"
               THEN "handleRemoveStory:present, then resolved"
               ELSE "none"
    /\ UNCHANGED <<localStorage, source, searchTerm, stories, isLoading, isError,
                   log, call, storage, prev>>

Reject(i) ==
    /\ pc = "idle"
    /\ promise[i] = "pending"
    /\ promise' = [promise EXCEPT ![i] = "rejected"]
    /\ IF effects(source)[i] = "load"
       THEN pc' = "catch_setIsError" /\ cur' = i
       ELSE pc' = "idle" /\ cur' = 0
    /\ last' = "none"
    /\ UNCHANGED <<localStorage, source, searchTerm, stories, isLoading, isError,
                   result, log, call, storage, prev>>

\* the .then callback run with its statements in the other order
ThenCallbackClearsLoadingFirst ==
    \/ /\ pc = "then_dispatchStories"
       /\ isLoading' = FALSE
       /\ log' = logged(cur, "setIsLoading(false)")
       /\ pc' = "then_setIsLoading"
       /\ UNCHANGED <<localStorage, source, searchTerm, stories, isError, promise,
                      cur, result, last, call, storage, prev>>
    \/ /\ pc = "then_setIsLoading"
       /\ dispatchStories([type |-> "SET_STORIES", payload |-> result])
       /\ log' = logged(cur, "dispatchStories")
       /\ pc' = "idle"
       /\ cur' = 0
       /\ result' = <<>>
       /\ UNCHANGED <<localStorage, source, searchTerm, isLoading, isError, promise,
                      last, call, storage, prev>>

\* the .then callback drops its records when a load issued later has
\* already dispatched its own
ThenCallbackIgnoresStale ==
    \/ /\ pc = "then_dispatchStories"
       /\ IF \E p \in 1..Len(log) : log[p].call = "dispatchStories" /\ log[p].load > cur
          THEN stories' = stories
          ELSE dispatchStories([type |-> "SET_STORIES", payload |-> result])
       /\ log' = logged(cur, "dispatchStories")
       /\ pc' = "then_setIsLoading"
       /\ UNCHANGED <<localStorage, source, searchTerm, isLoading, isError, promise,
                      cur, result, last, call, storage, prev>>
    \/ /\ pc = "then_setIsLoading"
       /\ isLoading' = FALSE
       /\ log' = logged(cur, "setIsLoading(false)")
       /\ pc' = "idle"
       /\ cur' = 0
       /\ result' = <<>>
       /\ UNCHANGED <<localStorage, source, searchTerm, stories, isError, promise,
                      last, call, storage, prev>>

\* the .then callback also calls setIsError(false)
ThenCallbackClearsError ==
    \/ /\ pc = "then_dispatchStories"
       /\ dispatchStories([type |-> "SET_STORIES", payload |-> result])
       /\ log' = logged(cur, "dispatchStories")
       /\ pc' = "then_setIsLoading"
       /\ UNCHANGED <<localStorage, source, searchTerm, isLoading, isError, promise,
                      cur, result, last, call, storage, prev>>
    \/ /\ pc = "then_setIsLoading"
       /\ isLoading' = FALSE
       /\ isError' = FALSE
       /\ log' = logged(cur, "setIsLoading(false)")
       /\ pc' = "idle"
       /\ cur' = 0
       /\ result' = <<>>
       /\ UNCHANGED <<localStorage, source, searchTerm, stories, promise,
                      last, call, storage, prev>>

\* the .then callback dispatches only while no records are loaded
ThenCallbackKeepsLoaded ==
    \/ /\ pc = "then_dispatchStories"
       /\ IF stories = <<>>
          THEN dispatchStories([type |-> "SET_STORIES", payload |-> result])
          ELSE stories' = stories
       /\ log' = logged(cur, "dispatchStories")
       /\ pc' = "then_setIsLoading"
       /\ UNCHANGED <<localStorage, source, searchTerm, isLoading, isError, promise,
                      cur, result, last, call, storage, prev>>
    \/ /\ pc = "then_setIsLoading"
       /\ isLoading' = FALSE
       /\ log' = logged(cur, "setIsLoading(false)")
       /\ pc' = "idle"
       /\ cur' = 0
       /\ result' = <<>>
       /\ UNCHANGED <<localStorage, source, searchTerm, stories, isError, promise,
                      last, call, storage, prev>>

\* the .then callback without its setIsLoading(false)
ThenCallbackLeavesLoading ==
    \/ /\ pc = "then_dispatchStories"
       /\ dispatchStories([type |-> "SET_STORIES", payload |-> result])
       /\ log' = logged(cur, "dispatchStories")
       /\ pc' = "then_setIsLoading"
       /\ UNCHANGED <<localStorage, source, searchTerm, isLoading, isError, promise,
                      cur, result, last, call, storage, prev>>
    \/ /\ pc = "then_setIsLoading"
       /\ pc' = "idle"
       /\ cur' = 0
       /\ result' = <<>>
       /\ UNCHANGED <<localStorage, source, searchTerm, stories, isLoading, isError,
                      promise, log, last, call, storage, prev>>

\* the .then callback: dispatchStories({type: 'SET_STORIES', payload:
\* result.data.stories}), then setIsLoading(false)
ThenCallback ==
    \/ /\ pc = "then_dispatchStories"
       /\ dispatchStories([type |-> "SET_STORIES", payload |-> result])
       /\ log' = logged(cur, "dispatchStories")
       /\ pc' = "then_setIsLoading"
       /\ UNCHANGED <<localStorage, source, searchTerm, isLoading, isError, promise,
                      cur, result, last, call, storage, prev>>
    \/ /\ pc = "then_setIsLoading"
       /\ isLoading' = FALSE
       /\ log' = logged(cur, "setIsLoading(false)")
       /\ pc' = "idle"
       /\ cur' = 0
       /\ result' = <<>>
       /\ UNCHANGED <<localStorage, source, searchTerm, stories, isError, promise,
                      last, call, storage, prev>>

\* part_000's first effect: setStories is not defined, the callback throws
\* a ReferenceError before any state is touched
ThenSetStories ==
    /\ pc = "then_setStories"
    /\ pc' = "idle"
    /\ cur' = 0
    /\ result' = <<>>
    /\ UNCHANGED <<localStorage, source, searchTerm, stories, isLoading, isError,
                   promise, log, last, call, storage, prev>>

\* the .catch callback also empties the stories
CatchCallbackClearsStories ==
    /\ pc = "catch_setIsError"
    /\ isError' = TRUE
    /\ stories' = <<>>
    /\ log' = logged(cur, "setIsError(true)")
    /\ pc' = "idle"
    /\ cur' = 0
    /\ UNCHANGED <<localStorage, source, searchTerm, isLoading, promise,
                   result, last, call, storage, prev>>

\* the .catch callback also clears isLoading
CatchCallbackClearsLoading ==
    /\ pc = "catch_setIsError"
    /\ isError' = TRUE
    /\ isLoading' = FALSE
    /\ log' = logged(cur, "setIsError(true)")
    /\ pc' = "idle"
    /\ cur' = 0
    /\ UNCHANGED <<localStorage, source, searchTerm, stories, promise,
                   result, last, call, storage, prev>>

\* the .catch callback: setIsError(true)
CatchCallback ==
    /\ pc = "catch_setIsError"
    /\ isError' = TRUE
    /\ log' = logged(cur, "setIsError(true)")
    /\ pc' = "idle"
    /\ cur' = 0
    /\ UNCHANGED <<localStorage, source, searchTerm, stories, isLoading, promise,
                   result, last, call, storage, prev>>

----------------------------------------------------------------------------
(* Event handlers *)

\* the remove handler does nothing once isError is set
handleRemoveStoryUnlessError(item) ==
    /\ pc = "idle"
    /\ ~isError
    /\ dispatchStories([type |-> "REMOVE_STORY", payload |-> item])
    /\ last' = IF \E n \in 1..Len(stories) : stories[n].objectID = item.objectID
               THEN "handleRemoveStory:present"
               ELSE "handleRemoveStory:absent"
    /\ UNCHANGED <<localStorage, source, searchTerm, isLoading, isError, promise,
                   pc, cur, result, log, call, storage, prev>>

handleRemoveStory(item) ==
    /\ pc = "idle"
    /\ dispatchStories([type |-> "REMOVE_STORY", payload |-> item])
    /\ last' = IF \E n \in 1..Len(stories) : stories[n].objectID = item.objectID
               THEN "handleRemoveStory:present"
               ELSE "handleRemoveStory:absent"
    /\ UNCHANGED <<localStorage, source, searchTerm, isLoading, isError, promise,
                   pc, cur, result, log, call, storage, prev>>

\* the search narrows the stories themselves, not only the view
handleSearchFiltersStories(text) ==
    /\ pc = "idle"
    /\ searchTerm' = text
    /\ stories' = filterStories(stories, text)
    /\ pc' = IF text # searchTerm THEN "setItem" ELSE "idle"
    /\ last' = IF text # searchTerm THEN "handleSearch:changed" ELSE "handleSearch:same"
    /\ UNCHANGED <<localStorage, source, isLoading, isError, promise,
                   cur, result, log, call, storage, prev>>

\* every call re-runs useStorageState's effect, also one with the current text
handleSearchAlwaysWrites(text) ==
    /\ pc = "idle"
    /\ searchTerm' = text
    /\ pc' = "setItem"
    /\ last' = IF text # searchTerm THEN "handleSearch:changed" ELSE "handleSearch:same"
    /\ UNCHANGED <<localStorage, source, stories, isLoading, isError, promise,
                   cur, result, log, call, storage, prev>>

\* setSearchTerm(event.target.value); a changed value re-renders and
\* re-runs useStorageState's effect, an equal value does neither
handleSearch(text) ==
    /\ pc = "idle"
    /\ searchTerm' = text
    /\ pc' = IF text # searchTerm THEN "setItem" ELSE "idle"
    /\ last' = IF text # searchTerm THEN "handleSearch:changed" ELSE "handleSearch:same"
    /\ UNCHANGED <<localStorage, source, stories, isLoading, isError, promise,
                   cur, result, log, call, storage, prev>>

\* The page is closed or reloaded between two handlers: the component state is
\* gone, localStorage stays, and the next session renders App anew
Reload ==
    /\ pc \in {"idle", "crashed"}
    /\ prev' = IF pc = "idle" THEN <<searchTerm>> ELSE <<>>
    /\ searchTerm' = <<>>
    /\ stories' = <<>>
    /\ isLoading' = FALSE
    /\ isError' = FALSE
    /\ promise' = [i \in 1..MaxEffects |-> "none"]
    /\ pc' = "unmounted"
    /\ cur' = 0
    /\ result' = <<>>
    /\ log' = <<>>
    /\ last' = "none"
    /\ UNCHANGED <<localStorage, source, call, storage>>

Next ==
    \/ Mount
    \/ StorageEffect
    \/ LoadEffect
    \/ PlainGetAsyncStories
    \/ \E i \in 1..MaxEffects, r \in RecordLists : Resolve(i, r)
    \/ \E i \in 1..MaxEffects : Reject(i)
    \/ ThenCallback
    \/ ThenSetStories
    \/ CatchCallback
    \/ \E item \in ItemPool : handleRemoveStory(item)
    \/ \E text \in Texts : handleSearch(text)
    \/ Reload

Spec == Init /\ [][Next]_vars

----------------------------------------------------------------------------
(* Direct calls of the pure function storiesReducer *)

\* the two tags the reducer knows and three it does not: an unknown name, a
\* known name in another case, and the empty tag
\* tags the reducer does not know: an unknown name, a known name in another
\* case, and the empty tag
UnknownTypes == {"ADD_STORY", "set_stories", ""}

InitReducer ==
    /\ localStorage = [k \in Keys |-> absent]
    /\ source = "App.jsx"
    /\ searchTerm = <<>>
    /\ stories = <<>>
    /\ isLoading = FALSE
    /\ isError = FALSE
    /\ promise = [i \in 1..MaxEffects |-> "none"]
    /\ pc = "unmounted"
    /\ cur = 0
    /\ result = <<>>
    /\ log = <<>>
    /\ last = "none"
    /\ call = <<>>
    /\ storage = "available"
    /\ prev = <<>>

Reduce(state, action) ==
    /\ call' = << [state |-> state, action |-> action,
                   result |-> storiesReducer(state, action),
                   after |-> argumentsAfter(state, action)] >>
    /\ UNCHANGED appVars

\* one call per behaviour: state and action are drawn when the call is made
NextReducer ==
    /\ call = <<>>
    /\ \/ \E state \in States, records \in States :
             Reduce(state, [type |-> "SET_STORIES", payload |-> records])
       \/ \E state \in States, item \in ItemPool :
             Reduce(state, [type |-> "REMOVE_STORY", payload |-> item])
       \/ \E state \in States, t \in UnknownTypes, records \in {<<>>, initialStories} :
             Reduce(state, [type |-> t, payload |-> records])
       \/ \E state \in States, t \in UnknownTypes, item \in ItemPool :
             Reduce(state, [type |-> t, payload |-> item])

ReducerSpec == InitReducer /\ [][NextReducer]_vars

----------------------------------------------------------------------------
(* Properties of storiesReducer, checked under ReducerSpec *)

ids(list) == { list[n].objectID : n \in 1..Len(list) }

\* a Collection State of the data model: no two records share an objectID
UniqueIds(list) ==
    \A m, n \in 1..Len(list) : list[m].objectID = list[n].objectID => m = n

\* C1: for every state s and every record sequence r, the reducer applied to
\* s and the SET_STORIES action with payload r returns exactly r (same
\* elements, same order), keeping nothing of s.
C1_SetStoriesReturnsPayload ==
    \A c \in 1..Len(call) :
        call[c].action.type = "SET_STORIES" =>
            /\ ~call[c].result.threw
            /\ call[c].result.value = call[c].action.payload

C1_Witness ==
    /\ call # <<>>
    /\ call[1].action.type = "SET_STORIES"
    /\ call[1].state = <<initialStories[2], initialStories[1]>>
    /\ call[1].action.payload = initialStories
    /\ call[1].result.value = initialStories

\* C2: for every Collection State s (records with pairwise distinct ids) that
\* contains a record with id k, the reducer applied to s and REMOVE_STORY of k
\* returns a sequence of length Len(s) - 1 with no record of id k: s without
\* the one position that held k, the other records in their original order.
C2_RemoveDropsTheOneMatch ==
    \A c \in 1..Len(call) :
        LET s == call[c].state
            k == call[c].action.payload.objectID
        IN  (call[c].action.type = "REMOVE_STORY" /\ UniqueIds(s) /\ k \in ids(s)) =>
                /\ ~call[c].result.threw
                /\ Len(call[c].result.value) = Len(s) - 1
                /\ k \notin ids(call[c].result.value)
                /\ \E p \in 1..Len(s) :
                      /\ s[p].objectID = k
                      /\ call[c].result.value =
                            SubSeq(s, 1, p - 1) \o SubSeq(s, p + 1, Len(s))

C2_Witness ==
    /\ call # <<>>
    /\ call[1].action.type = "REMOVE_STORY"
    /\ Len(call[1].state) = 3
    /\ UniqueIds(call[1].state)
    /\ call[1].state[2].objectID = call[1].action.payload.objectID
    /\ call[1].result.value = <<call[1].state[1], call[1].state[3]>>

\* C4: an action whose type is neither SET_STORIES nor REMOVE_STORY makes the
\* reducer throw: it returns no state for it, whatever the state and payload.
C4_UnknownTypeThrows ==
    \A c \in 1..Len(call) :
        call[c].action.type \notin {"SET_STORIES", "REMOVE_STORY"} =>
            call[c].result = thrown

C4_Witness ==
    /\ call # <<>>
    /\ call[1].action.type = "ADD_STORY"
    /\ call[1].state = initialStories
    /\ call[1].result.threw

----------------------------------------------------------------------------
(* Properties of the App component, checked under Spec *)

removeStory(item) == [type |-> "REMOVE_STORY", payload |-> item]

\* C3: a remove-handler call with an id that no record of the stories carries
\* leaves the stories as they were; the reducer returns the state without
\* throwing, the handler completes and isError keeps its value.
C3_RemoveAbsentIsNoOp ==
    [][last' = "handleRemoveStory:absent" =>
          /\ \A item \in ItemPool :
                item.objectID \notin ids(stories) =>
                    storiesReducer(stories, removeStory(item)) = returned(stories)
          /\ stories' = stories
          /\ isError' = isError
          /\ pc' = "idle"]_vars

C3_Witness ==
    /\ last = "handleRemoveStory:absent"
    /\ pc = "idle"
    /\ stories = initialStories
    /\ ~isError

----------------------------------------------------------------------------
(* The load *)

isLoad(i) == i \in 1..Len(effects(source)) /\ effects(source)[i] = "load"

\* positions of the log at which load i made the call c
at(i, c) == { p \in 1..Len(log) : log[p] = [load |-> i, call |-> c] }

precedes(i, c, d) == \A q \in at(i, d) : \E p \in at(i, c) : p < q

\* C5: within one load, setIsLoading(true) is called before the provider, and
\* on success the SET_STORIES dispatch comes before setIsLoading(false); while
\* the callback is between the two the stories already are the provider's
\* records, and with a single load there is no state in which the load has
\* resolved, isLoading is false and the stories have not been replaced.
C5_LoadOrder ==
    /\ \A i \in 1..MaxEffects :
          /\ isLoad(i) => precedes(i, "setIsLoading(true)", "getAsyncStories()")
          /\ precedes(i, "getAsyncStories()", "dispatchStories")
          /\ precedes(i, "dispatchStories", "setIsLoading(false)")
    /\ pc = "then_setIsLoading" => stories = result
    /\ (source = "App.jsx" /\ promise[1] = "pending") => isLoading
    /\ (source = "App.jsx" /\ promise[1] = "fulfilled" /\ ~isLoading) =>
          at(1, "dispatchStories") # {}

C5_Witness ==
    /\ source = "App.jsx"
    /\ pc = "idle"
    /\ log = << [load |-> 1, call |-> "setIsLoading(true)"],
                [load |-> 1, call |-> "getAsyncStories()"],
                [load |-> 1, call |-> "dispatchStories"],
                [load |-> 1, call |-> "setIsLoading(false)"] >>
    /\ ~isLoading
    /\ stories = initialStories

\* the step that completes the .then callback
thenCompletes == pc = "then_setIsLoading" /\ pc' = "idle"

\* C6: with the single load of App.jsx (the stories are empty until it
\* resolves), when the .then callback completes for records r, isLoading and
\* isError are false, the stories are r, and the view under the empty search
\* term is all of r in the provider's order.
C6_SingleLoadSuccess ==
    [][(source = "App.jsx" /\ thenCompletes) =>
          /\ ~isLoading'
          /\ ~isError'
          /\ stories' = result
          /\ filterStories(stories', <<>>) = result
          /\ (searchTerm' = <<>> => searchedStories' = result)]_vars

C6_Witness ==
    /\ source = "App.jsx"
    /\ pc = "idle"
    /\ last = "none"
    /\ promise[1] = "fulfilled"
    /\ ~isLoading
    /\ ~isError
    /\ searchTerm = <<>>
    /\ stories = initialStories
    /\ searchedStories = initialStories

\* C7: when the provider rejects, the failure path (the rejection and the
\* .catch callback) leaves the stories as they were and sets isError; the
\* rejected load never dispatches; with the single load of App.jsx the
\* stories are still empty.
C7_FailureLeavesStories ==
    /\ [][((\E i \in 1..MaxEffects : promise[i] # "rejected" /\ promise'[i] = "rejected")
             \/ pc = "catch_setIsError") =>
                stories' = stories]_vars
    /\ [][pc = "catch_setIsError" => isError']_vars
    /\ [](\A i \in 1..MaxEffects :
             (isLoad(i) /\ promise[i] = "rejected") =>
                 /\ at(i, "dispatchStories") = {}
                 /\ (pc = "catch_setIsError" /\ cur = i) \/ isError
                 /\ source = "App.jsx" => stories = <<>>)

C7_Witness ==
    /\ source = "part_000"
    /\ pc = "idle"
    /\ promise[2] = "rejected"
    /\ promise[3] = "fulfilled"
    /\ log[Len(log)] = [load |-> 2, call |-> "setIsError(true)"]
    /\ isError
    /\ stories = initialStories

\* C8: once a provider failure has set isError, the handlers stay available:
\* at rest every search text and every item is accepted, a search step still
\* sets searchTerm and its effect still writes it to the store, a remove step
\* still applies the reducer, and no step invokes the provider again.
C8_WorksAfterError ==
    /\ []((isError /\ pc = "idle") =>
             /\ \A text \in Texts : ENABLED handleSearch(text)
             /\ \A item \in ItemPool : ENABLED handleRemoveStory(item)
             /\ getItem(searchKey) = stored(searchTerm))
    /\ [][isError =>
             /\ pc = "setItem" => getItem(searchKey)' = stored(searchTerm)
             /\ pc' = "setItem" => searchTerm' # searchTerm /\ searchTerm' \in Texts
             /\ last' \in {"handleRemoveStory:present", "handleRemoveStory:absent"} =>
                   \E item \in ItemPool :
                       stories' = SelectSeq(stories,
                           LAMBDA story : story.objectID # item.objectID)
             /\ \A i \in 1..MaxEffects : promise'[i] = "pending" => promise[i] = "pending"
             /\ \A p \in 1..Len(log') : p > Len(log) => log'[p].call # "getAsyncStories()"
       ]_vars

C8_Witness ==
    /\ source = "part_000"
    /\ isError
    /\ pc = "idle"
    /\ last = "handleRemoveStory:present"
    /\ stories = <<initialStories[2]>>
    /\ searchTerm = <<"x">>
    /\ getItem(searchKey) = stored(<<"x">>)

\* the load whose callback (.then or .catch) ran most recently, 0 if none ran
settled == { p \in 1..Len(log) : log[p].call \in {"dispatchStories", "setIsError(true)"} }

lastSettled ==
    IF settled = {} THEN 0
    ELSE log[CHOOSE p \in settled : \A q \in settled : q <= p].load

C10_LoadingStaysAfterFailure ==
    /\ [][pc = "catch_setIsError" => (isError' /\ isLoading' = isLoading)]_vars
    /\ []((source = "App.jsx" /\ promise[1] = "rejected") =>
             /\ isLoading
             /\ pc # "catch_setIsError" => isError)

C10_Witness ==
    /\ source = "App.jsx"
    /\ promise[1] = "rejected"
    /\ pc = "idle"
    /\ last = "handleSearch:changed"
    /\ isLoading
    /\ isError

----------------------------------------------------------------------------
(* The load, counted over one session *)

\* the calls of getAsyncStories made so far in this session
invocations == { p \in 1..Len(log) : log[p].call = "getAsyncStories()" }

outstanding == { i \in 1..MaxEffects : promise[i] = "pending" }

----------------------------------------------------------------------------
(* Direct calls of the filter's callback, the pure function matches *)

FilterTitles == { <<>>, React, Redux, REDUX, <<"x">>, <<"t","R","E">> }

FilterQueries ==
    Texts \cup { <<"e","a">>, <<"U","X">>, <<"d","u","x","x">>,
                 <<"R","e","a","c","t","x">> }

\* records whose author and url are texts a query can occur in
FilterRecords ==
    [ title : FilterTitles, url : { <<>>, <<"r","e","d","u","x">> },
      author : { <<"x">>, React }, num_comments : {3}, points : {4},
      objectID : {0} ]

Match(story, query) ==
    /\ call' = << [story |-> story, query |-> query,
                   result |-> matches(story, query)] >>
    /\ UNCHANGED appVars

\* one call per behaviour: record and query are drawn when the call is made
NextFilter ==
    /\ call = <<>>
    /\ \E story \in FilterRecords, query \in FilterQueries : Match(story, query)

FilterSpec == InitReducer /\ [][NextFilter]_vars

\* the letters of the texts above that come in two cases
Cases == { {"R","r"}, {"E","e"}, {"D","d"}, {"U","u"}, {"X","x"} }

sameLetter(a, b) == a = b \/ {a, b} \in Cases

\* query occurs in text as a run of consecutive characters, case ignored
occursIgnoringCase(query, text) ==
    \E i \in 0..(Len(text) - Len(query)) :
        \A j \in 1..Len(query) : sameLetter(text[i + j], query[j])

\* C12: matches(record, query) is true exactly when the query occurs in the
\* record's title with case ignored; the empty query matches every record;
\* records that differ only in author, url or another field than title get
\* the same answer.
C12_MatchesTitleIgnoringCase ==
    call # <<>> =>
        LET story == call[1].story
            query == call[1].query
        IN  /\ call[1].result = occursIgnoringCase(query, story.title)
            /\ query = <<>> => call[1].result
            /\ \A other \in FilterRecords :
                   other.title = story.title =>
                       matches(other, query) = call[1].result

\* an upper-case query found in a title that has it in lower case, in a
\* record whose author does not contain it
C12_Witness ==
    /\ call # <<>>
    /\ call[1].story.title = Redux
    /\ call[1].story.author = React
    /\ call[1].query = <<"R","E">>
    /\ call[1].result

----------------------------------------------------------------------------
(* The view handed to List *)

\* the positions of stories whose title contains searchTerm, case ignored
matching == { n \in 1..Len(stories) : occursIgnoringCase(searchTerm, stories[n].title) }

\* the k-th smallest matching position
nth(k) == CHOOSE n \in matching : Cardinality({ m \in matching : m <= n }) = k

\* C13: in every reachable state the view computed by the render holds
\* exactly the records of the current stories whose title contains the
\* current searchTerm, in the order they have in stories.
C13_ViewIsCurrentMatches ==
    /\ Len(searchedStories) = Cardinality(matching)
    /\ \A k \in 1..Len(searchedStories) : searchedStories[k] = stories[nth(k)]

\* the search text was changed after the load: the view is the second of the
\* two loaded records
C13_Witness ==
    /\ pc = "idle"
    /\ last = "handleSearch:changed"
    /\ stories = initialStories
    /\ searchTerm = <<"r", "e", "d", "u", "x">>
    /\ searchedStories = <<initialStories[2]>>

----------------------------------------------------------------------------
(* The search term and the store *)

\* C14: when the session has rendered for the first time, searchTerm is the
\* text the store held under the search key if it held one, the empty text
\* included, and the default only if the key was absent.
C14_StartsWithStoredQuery ==
    pc = "mount_setItem" =>
        searchTerm = IF getItem(searchKey).present
                     THEN getItem(searchKey).value
                     ELSE initialState

\* C15: the effect that follows a handleSearch writes the new searchTerm
\* under the search key, so once the handler and its effect are done a
\* getItem of the search key returns the text handleSearch received, for
\* every text, and no older one.
C15_StoreFollowsQuery ==
    /\ [][pc = "setItem" =>
             /\ getItem(searchKey)' = stored(searchTerm)
             /\ searchTerm' = searchTerm
             /\ pc' = "idle"]_vars
    /\ []((pc = "idle" /\ last \in {"handleSearch:changed", "handleSearch:same"}) =>
             getItem(searchKey) = stored(searchTerm))

\* the empty text typed over another one and written to the store
C15_Witness ==
    /\ pc = "idle"
    /\ last = "handleSearch:changed"
    /\ searchTerm = <<>>
    /\ getItem(searchKey) = stored(<<>>)

\* C16: a session that starts over the store left by an earlier session has,
\* at its first render, the searchTerm the earlier session ended with, for
\* every text.
C16_QueryOutlivesSession ==
    (pc = "mount_setItem" /\ prev # <<>>) => searchTerm = prev[1]

\* a step in which handleSearch runs
handleSearchStep ==
    pc = "idle" /\ last' \in {"handleSearch:changed", "handleSearch:same"}

\* C17 as stated: every handleSearch is followed by a write to the store,
\* also when the text it receives equals the current searchTerm.
C17_EverySetQueryWrites ==
    [][handleSearchStep => pc' = "setItem"]_vars

\* C17, amended: a handleSearch whose text differs from the current
\* searchTerm is followed by a write of the new text under the search key; a
\* handleSearch with the current text is followed by no write and leaves the
\* store, which already holds that text, as it is.
C17_ChangedQueryWrites ==
    /\ [][handleSearchStep =>
             IF searchTerm' # searchTerm
             THEN pc' = "setItem" /\ localStorage' = localStorage
             ELSE /\ pc' = "idle"
                  /\ localStorage' = localStorage
                  /\ getItem(searchKey) = stored(searchTerm')]_vars
    /\ [][pc = "setItem" => localStorage' # localStorage]_vars

\* handleSearch has run with the text the search field already showed
C17_Witness ==
    /\ pc = "idle"
    /\ last = "handleSearch:same"
    /\ searchTerm = <<"x">>
    /\ getItem(searchKey) = stored(<<"x">>)

----------------------------------------------------------------------------
(* The stories as a collection *)

\* C18 as stated: in every reachable state no two records of stories share
\* an objectID, whatever the provider resolves with.
C18_IdsAlwaysUnique == UniqueIds(stories)

\* the .then callback is about to dispatch a payload with a repeated objectID
deliversDuplicate == pc = "then_dispatchStories" /\ ~UniqueIds(result)

\* C18, amended: stories starts without a repeated objectID, and every step
\* other than the dispatch of a payload that itself repeats an objectID keeps
\* it so; such a payload is stored as delivered, repetition included.
C18_UniqueUnlessDelivered ==
    /\ [](pc = "unmounted" => UniqueIds(stories))
    /\ [][(UniqueIds(stories) /\ ~deliversDuplicate) => UniqueIds(stories')]_vars
    /\ [][deliversDuplicate => stories' = result /\ ~UniqueIds(stories')]_vars

\* a load that delivered distinct objectIDs, followed by a removal
C18_Witness ==
    /\ source = "part_000"
    /\ promise[2] = "fulfilled"
    /\ promise[3] = "fulfilled"
    /\ pc = "idle"
    /\ last = "handleRemoveStory:present"
    /\ stories = <<initialStories[1]>>

----------------------------------------------------------------------------
(* localStorage that throws *)

\* C19: when getItem or setItem of localStorage fails, the App keeps running
\* on its in-memory state: the session starts with the default searchTerm if
\* the store cannot be read, and handleSearch and handleRemoveStory keep
\* working.
C19_SurvivesStorageFailure ==
    storage # "available" =>
        /\ pc # "crashed"
        /\ (getItemThrows /\ pc = "mount_setItem") => searchTerm = initialState
        /\ pc = "idle" =>
              /\ \A text \in Texts : ENABLED handleSearch(text)
              /\ \A item \in ItemPool : ENABLED handleRemoveStory(item)

----------------------------------------------------------------------------
(* What changes the stories *)

\* C20: stories is empty when a session starts, and within a session it
\* changes only by a dispatch: to the payload of a resolved load, or to
\* itself without the records of one objectID; handleSearch and the steps
\* that change isLoading or isError leave it as it is, and so does the view,
\* which is computed from it.
C20_StoriesChangeOnlyByDispatch ==
    /\ [](pc \in {"unmounted", "mount_setItem"} => stories = <<>>)
    /\ [][(stories' # stories /\ pc' # "unmounted") =>
             \/ pc = "then_dispatchStories" /\ stories' = result
             \/ /\ pc = "idle"
                /\ last' = "handleRemoveStory:present"
                /\ \E item \in ItemPool :
                       stories' = SelectSeq(stories,
                           LAMBDA story : story.objectID # item.objectID)]_vars
    /\ [][(pc' # "unmounted" /\
             (handleSearchStep \/ isLoading' # isLoading \/ isError' # isError)) =>
             stories' = stories]_vars

\* a search text that the one loaded title does not contain: the view is
\* empty, the record is still in stories
C20_Witness ==
    /\ pc = "setItem"
    /\ last = "handleSearch:changed"
    /\ searchTerm = <<"x">>
    /\ searchedStories = <<>>
    /\ stories = <<initialStories[1]>>
    /\ ~isLoading

----------------------------------------------------------------------------
(* The load under fair scheduling *)

\* JavaScript runs a started handler, effect or promise callback to its end,
\* and React runs the effects of a render: every step of those is taken once
\* it is enabled. Nothing obliges the provider to settle, the user to act or
\* the page to be reloaded.
Fairness ==
    /\ WF_vars(Mount)
    /\ WF_vars(StorageEffect)
    /\ WF_vars(LoadEffect)
    /\ WF_vars(PlainGetAsyncStories)
    /\ WF_vars(ThenCallback)
    /\ WF_vars(ThenSetStories)
    /\ WF_vars(CatchCallback)

\* a first visit: nothing stored yet, localStorage working; the sessions that
\* start over a stored search term follow from it by handleSearch and Reload
InitFirstVisit ==
    /\ Init
    /\ storage = "available"
    /\ localStorage = [k \in Keys |-> absent]

FairSpec == InitFirstVisit /\ [][Next]_vars /\ Fairness

\* C21: the .then callback of a resolved load, once started, runs to its end:
\* its first statement makes stories the resolved records, its second makes
\* isLoading false with stories still those records, and under fair
\* scheduling the state after the second is reached; the .catch callback of
\* a rejected load, once started, reaches a state with isError true.
C21_OutcomeIsApplied ==
    /\ [][pc = "then_dispatchStories" =>
             stories' = result /\ result' = result /\ pc' = "then_setIsLoading"]_vars
    /\ [][pc = "then_setIsLoading" =>
             stories = result /\ stories' = stories /\ ~isLoading' /\ pc' = "idle"]_vars
    /\ (pc = "then_dispatchStories") ~> (pc = "idle" /\ ~isLoading)
    /\ (pc = "catch_setIsError") ~> isError

\* both loads of part_000 have settled, the one by rejecting, the other,
\* later, by resolving with the two records
C21_Witness ==
    /\ source = "part_000"
    /\ pc = "idle"
    /\ promise[2] = "rejected"
    /\ promise[3] = "fulfilled"
    /\ lastSettled = 3
    /\ stories = initialStories
    /\ ~isLoading
    /\ isError

----------------------------------------------------------------------------
(* Removal after the load *)

without(list, item) == SelectSeq(list, LAMBDA story : story.objectID # item.objectID)

\* the single load of App.jsx has resolved and its callback has run
singleLoadDone ==
    source = "App.jsx" /\ promise[1] = "fulfilled" /\ pc \in {"idle", "setItem"}

\* ... and no handler or effect is running
afterSingleLoad == singleLoadDone /\ pc = "idle"

\* C22: with the single load of App.jsx resolved, a handleRemoveStory for an
\* item makes the view the previous view without the records of the item's
\* objectID and leaves no record of that objectID in stories; from then on no
\* step of the session adds an objectID to stories, and the view shows only
\* records of stories, so the removed record is in neither again.
C22_RemovedStaysRemoved ==
    /\ [][(afterSingleLoad /\ last' = "handleRemoveStory:present") =>
             \E item \in ItemPool :
                 /\ item.objectID \in ids(stories)
                 /\ searchedStories' = without(searchedStories, item)
                 /\ item.objectID \notin ids(stories')
                 /\ item.objectID \notin ids(searchedStories')]_vars
    /\ [][singleLoadDone =>
             /\ ids(stories') \subseteq ids(stories)
             /\ ids(searchedStories') \subseteq ids(stories')]_vars

\* the first of the two loaded records was removed: the view is the second
C22_Witness ==
    /\ afterSingleLoad
    /\ last = "handleRemoveStory:present"
    /\ searchTerm = <<"R", "E">>
    /\ stories = <<initialStories[2]>>
    /\ searchedStories = <<initialStories[2]>>

----------------------------------------------------------------------------
(* Two loads in flight (part_000) *)

\* load i called the provider before load j did
issuedBefore(i, j) ==
    \A q \in at(j, "getAsyncStories()") : \E p \in at(i, "getAsyncStories()") : p < q

\* the .then callback of load j has dispatched and that of load i is about to
appliedOutOfOrder(i, j) ==
    /\ pc = "then_dispatchStories"
    /\ cur = i
    /\ at(j, "dispatchStories") # {}
    /\ at(j, "getAsyncStories()") # {}
    /\ issuedBefore(i, j)

----------------------------------------------------------------------------
(* storiesReducer as a function *)

\* what the claim's reducer returns for a state and an action
reduced(state, action) ==
    IF action.type = "SET_STORIES" THEN returned(action.payload)
    ELSE IF action.type = "REMOVE_STORY" THEN returned(without(state, action.payload))
    ELSE thrown

----------------------------------------------------------------------------
(* The flags with two loads in flight *)

C26_ErrorIsMonotone ==
    /\ [](pc \in {"unmounted", "mount_setItem"} => ~isError)
    /\ [][(isError' /\ ~isError) => pc = "catch_setIsError"]_vars
    /\ [][(isError /\ pc' # "unmounted") => isError']_vars

\* a load failed, a later one succeeded, the user typed: isError is still true
C26_Witness ==
    /\ source = "part_000"
    /\ pc = "idle"
    /\ isError
    /\ promise[2] = "rejected"
    /\ promise[3] = "fulfilled"
    /\ lastSettled = 3
    /\ last = "handleSearch:changed"
    /\ stories # <<>>

\* C27: for every state s and items j, k, removing k from s twice gives what
\* removing it once gives, and removing j then k gives what removing k then
\* j gives.
C27_RemovalIdempotentCommutative ==
    (call # <<>> /\ call[1].action.type = "REMOVE_STORY") =>
        LET s == call[1].state
            k == call[1].action.payload
            once == call[1].result.value
        IN  /\ storiesReducer(once, removeStory(k)).value = once
            /\ \A j \in ItemPool :
                   storiesReducer(storiesReducer(s, removeStory(j)).value, removeStory(k)).value
                       = storiesReducer(once, removeStory(j)).value

\* a removal from a state in which two records carry the removed objectID
\* and a third carries another one
C27_Witness ==
    /\ call # <<>>
    /\ call[1].action.type = "REMOVE_STORY"
    /\ Len(call[1].state) = MaxState
    /\ Cardinality(ids(call[1].state)) = 2
    /\ Len(call[1].result.value) = MaxState - 2
    /\ call[1].action.payload.objectID = 0

----------------------------------------------------------------------------
(* The store and the search term *)

\* useStorageState's effect is due: after the first render, after a change
writePending == pc \in {"mount_setItem", "setItem"}

mounted == pc \notin {"unmounted", "crashed"}

\* C28: in every state of a session in which no write of useStorageState is
\* due, the store holds the current searchTerm under the search key; the
\* write after the first render puts it there, so that a session of App.jsx
\* that found the key absent has stored the default before any input.
C28_StoreEqualsQuery ==
    /\ []((mounted /\ ~writePending) => getItem(searchKey) = stored(searchTerm))
    /\ [][(source = "App.jsx" /\ pc = "mount_setItem" /\ ~setItemThrows
             /\ ~getItem(searchKey).present) =>
             getItem(searchKey)' = stored(initialState)]_vars

\* the first render of App.jsx is followed by its storage effect: the default
\* is in the store, the load effect has not yet run
C28_Witness ==
    /\ source = "App.jsx"
    /\ pc = "load_setIsLoading"
    /\ log = <<>>
    /\ searchTerm = initialState
    /\ getItem(searchKey) = stored(initialState)
    /\ ~getItem("key").present

----------------------------------------------------------------------------
(* A load that resolves after removals *)

\* C29: the .then callback of a load makes stories the records the provider
\* resolved with, all of them and in their order, whatever stories held
\* before and whatever was removed from it: a record removed before the
\* resolution is back if the provider delivers it.
C29_LoadOverwritesRemovals ==
    /\ [][(pc = "then_dispatchStories" /\ isLoad(cur)) =>
             /\ Len(stories') = Len(result)
             /\ \A n \in 1..Len(result) : stories'[n] = result[n]]_vars
    /\ []((pc = "then_setIsLoading"
             /\ last = "handleRemoveStory:present, then resolved") =>
             stories = result)

\* part_000: the first load delivered, a record was removed, and the second
\* load then resolved with the two records, which stories holds again
C29_Witness ==
    /\ source = "part_000"
    /\ pc = "then_setIsLoading"
    /\ cur = 3
    /\ at(2, "dispatchStories") # {}
    /\ last = "handleRemoveStory:present, then resolved"
    /\ result = initialStories
    /\ stories = initialStories

====
